---- MODULE Spec2Model ----
(***************************************************************************)
(* The normalized entity store of recoil-ext: the EntityState container,   *)
(* normalize, the pure updaters of entity-updaters.ts and the actions of   *)
(* createUseEntityActions that apply them to the atom.                     *)
(***************************************************************************)
EXTENDS Integers, Sequences, FiniteSets, TLC

VARIABLES
    options,        \* the adapter's options: the entity type T and sortComparer,
                    \* and the Array.prototype.sort of the runtime it runs on
    state,          \* the atom's value: [ids, entities]
    last,           \* the call of the current event: [op, arg, prev, out]
    idb             \* the persistence effect attached to the atom, and the
                    \* database it talks to

vars == <<options, state, last, idb>>

sortComparer == options.sortComparer

----------------------------------------------------------------------------
(* Bounds of the model.                                                    *)

MaxId == 3          \* entity ids are 1..MaxId
MaxAge == 2         \* the age field is 1..MaxAge
MaxStamp == 2       \* createdAt, when present, is 1..MaxStamp
MaxLen == 2         \* longest array passed to normalize, addMany, setAll, removeMany
MaxUpdates == 2     \* longest array passed to updateMany
MaxRecords == 3     \* longest array passed to a direct call of normalize
MaxChanges == 2     \* changes of the atom's value while the effect is attached
MaxBatch == 2       \* actions dispatched in one event, before the re-render
MaxBatchLen == 1    \* longest array passed to an action of such an event

Ids == 1..MaxId
Ages == 1..MaxAge
Stamps == 1..MaxStamp

SeqsUpTo(S, n) == UNION { [1..k -> S] : k \in 0..n }

FieldValues(f) ==
    IF f = "id" THEN Ids ELSE IF f = "age" THEN Ages ELSE Stamps

(* Partial<T> over a set of fields.                                        *)
Partial(fields) ==
    UNION { { c \in [fs -> Ids \cup Ages \cup Stamps] :
                \A f \in fs : c[f] \in FieldValues(f) } :
            fs \in SUBSET fields }

(* Three adapters are modelled: users { id, age } kept with the           *)
(* sortComparer (a, b) => a.age - b.age; records { id, createdAt? } kept   *)
(* without a comparator; tags { id } kept without a comparator.  The       *)
(* order Array.prototype.sort gives is defined by the language only for a  *)
(* consistent comparator, and there every stable sort gives the same; the  *)
(* default comparator is not consistent on records of which some carry     *)
(* createdAt and some do not, so the records are run on either sort.       *)
Users == [id : Ids, age : Ages]
Records == [id : Ids] \cup [id : Ids, createdAt : Stamps]
Tags == [id : Ids]

Adapters ==
    { [T |-> "User", sortComparer |-> "byAge", sort |-> "insertion"],
      [T |-> "Record", sortComparer |-> "none", sort |-> "insertion"],
      [T |-> "Record", sortComparer |-> "none", sort |-> "merge"],
      [T |-> "Tag", sortComparer |-> "none", sort |-> "insertion"] }

UserArrays == SeqsUpTo(Users, MaxLen)
RecordArrays == SeqsUpTo(Records, MaxLen)
TagArrays == SeqsUpTo(Tags, MaxLen)

(* The patches callers pass.  Those of a tag may name its id; those of a   *)
(* user or a record name the other fields.                                 *)
UserUpdates == [id : Ids, changes : Partial({"age"})]
RecordUpdates == [id : Ids, changes : Partial({"createdAt"})]
TagUpdates == [id : Ids, changes : Partial({"id"})]

UserBulkUpdates == SeqsUpTo(UserUpdates, MaxUpdates)
RecordBulkUpdates == SeqsUpTo(RecordUpdates, MaxUpdates)
TagBulkUpdates == SeqsUpTo(TagUpdates, MaxUpdates)

IdArrays == SeqsUpTo(Ids, MaxLen)

(* The arrays passed to normalize when it is called on its own.            *)
UserRecords == SeqsUpTo(Users, MaxRecords)
RecordRecords == SeqsUpTo(Records, MaxRecords)
TagRecords == SeqsUpTo(Tags, MaxRecords)

RecordsOf(T) ==
    IF T = "User" THEN UserRecords
    ELSE IF T = "Record" THEN RecordRecords ELSE TagRecords

(* The comparators a caller can pass for entities of type T: users have a  *)
(* comparator by age; for every type the argument may be omitted.          *)
ComparersOf(T) == IF T = "User" THEN {"byAge", "none"} ELSE {"none"}

Entities(T) ==
    IF T = "User" THEN Users ELSE IF T = "Record" THEN Records ELSE Tags

EntityArrays(T) ==
    IF T = "User" THEN UserArrays
    ELSE IF T = "Record" THEN RecordArrays ELSE TagArrays

EntityUpdates(T) ==
    IF T = "User" THEN UserUpdates
    ELSE IF T = "Record" THEN RecordUpdates ELSE TagUpdates

BulkUpdates(T) ==
    IF T = "User" THEN UserBulkUpdates
    ELSE IF T = "Record" THEN RecordBulkUpdates ELSE TagBulkUpdates

----------------------------------------------------------------------------
(* EntityState values.  Object identity is kept relative to the call: the  *)
(* state handed to an updater, its ids array and its entities map are the  *)
(* objects "in"; an object built during the call is "new".                 *)

EntityState(ids, entities, ref, idsRef, entRef) ==
    [ids |-> ids, entities |-> entities,
     ref |-> ref, idsRef |-> idsRef, entRef |-> entRef]

Input(s) == EntityState(s.ids, s.entities, "in", "in", "in")

Value(s) == [ids |-> s.ids, entities |-> s.entities]

EmptyState == [ids |-> <<>>, entities |-> <<>>]

selectId(entity) == entity.id

(* id in state.entities *)
Has(entities, id) == id \in DOMAIN entities

(* { ...entities, [id]: entity } *)
Put(entities, id, entity) ==
    [k \in (DOMAIN entities) \cup {id} |->
        IF k = id THEN entity ELSE entities[k]]

(* delete entities[id], for every id of a set *)
Delete(entities, gone) ==
    [k \in (DOMAIN entities) \ gone |-> entities[k]]

(* { ...oldEntity, ...changes } *)
Merge(oldEntity, changes) ==
    [f \in (DOMAIN oldEntity) \cup (DOMAIN changes) |->
        IF f \in DOMAIN changes THEN changes[f] ELSE oldEntity[f]]

Range(seq) == { seq[i] : i \in DOMAIN seq }

----------------------------------------------------------------------------
(* Comparators.                                                            *)

(* a default comparator that holds every pair equal *)
defaultComparer_AllEqual(a, b) == 0

defaultComparer(a, b) ==
    IF "createdAt" \in DOMAIN a /\ "createdAt" \in DOMAIN b
    THEN b.createdAt - a.createdAt
    ELSE 0

byAge(a, b) == a.age - b.age

(* (comparer || defaultComparer)(a, b) *)
Compare(comparer, a, b) ==
    IF comparer = "byAge" THEN byAge(a, b) ELSE defaultComparer(a, b)

(* Array.prototype.sort as a stable insertion sort: each element is       *)
(* inserted after the last already placed element that does not compare    *)
(* greater.                                                                *)
RECURSIVE InsertSorted(_, _, _, _)
InsertSorted(sorted, x, comparer, entities) ==
    IF sorted = <<>> THEN <<x>>
    ELSE LET n == Len(sorted)
             y == sorted[n]
         IN  IF Compare(comparer, entities[y], entities[x]) > 0
             THEN Append(InsertSorted(SubSeq(sorted, 1, n - 1), x,
                                      comparer, entities), y)
             ELSE Append(sorted, x)

RECURSIVE InsertionSort(_, _, _)
InsertionSort(ids, comparer, entities) ==
    IF ids = <<>> THEN <<>>
    ELSE LET n == Len(ids)
         IN  InsertSorted(InsertionSort(SubSeq(ids, 1, n - 1), comparer,
                                        entities),
                          ids[n], comparer, entities)

(* Array.prototype.sort as a stable bottom-up merge sort: runs of width 1, *)
(* 2, 4, ... are merged in pairs; the merge takes from the right run only  *)
(* an element that compares less than the head of the left run.            *)
RECURSIVE MergeRuns(_, _, _, _)
MergeRuns(left, right, comparer, entities) ==
    IF left = <<>> THEN right
    ELSE IF right = <<>> THEN left
    ELSE IF Compare(comparer, entities[Head(right)], entities[Head(left)]) < 0
         THEN <<Head(right)>> \o MergeRuns(left, Tail(right), comparer, entities)
         ELSE <<Head(left)>> \o MergeRuns(Tail(left), right, comparer, entities)

RECURSIVE MergePass(_, _, _, _)
MergePass(ids, width, comparer, entities) ==
    LET n == Len(ids)
        end == IF 2 * width < n THEN 2 * width ELSE n
    IN  IF n <= width THEN ids
        ELSE MergeRuns(SubSeq(ids, 1, width), SubSeq(ids, width + 1, end),
                       comparer, entities)
             \o MergePass(SubSeq(ids, end + 1, n), width, comparer, entities)

RECURSIVE MergeSort(_, _, _, _)
MergeSort(ids, width, comparer, entities) ==
    IF width >= Len(ids) THEN ids
    ELSE MergeSort(MergePass(ids, width, comparer, entities), 2 * width,
                   comparer, entities)

(* ids.sort((a, b) => comparer(entities[a], entities[b])) on the runtime   *)
(* of the adapter *)
SortIds(ids, comparer, entities) ==
    IF options.sort = "merge"
    THEN MergeSort(ids, 1, comparer, entities)
    ELSE InsertionSort(ids, comparer, entities)

(* reSort that copies ids without sorting them *)
reSort_Unsorted(s, comparer) ==
    EntityState(s.ids, s.entities, "new", "new", s.entRef)

(* reSort that sorts state.ids itself instead of a copy of it *)
reSort_InPlace(s, comparer) ==
    EntityState(SortIds(s.ids, comparer, s.entities), s.entities,
                "new", s.idsRef, s.entRef)

reSort(s, comparer) ==
    LET newIds == SortIds(s.ids, comparer, s.entities)
    IN  EntityState(newIds, s.entities, "new", "new", s.entRef)

----------------------------------------------------------------------------
(* normalize                                                               *)

(* the map in which the first record given with an id stays *)
RECURSIVE EntitiesMap_FirstWins(_)
EntitiesMap_FirstWins(records) ==
    IF records = <<>> THEN <<>>
    ELSE Put(EntitiesMap_FirstWins(Tail(records)),
             selectId(Head(records)), Head(records))

RECURSIVE EntitiesMap(_)
EntitiesMap(records) ==
    IF records = <<>> THEN <<>>
    ELSE LET n == Len(records)
         IN  Put(EntitiesMap(SubSeq(records, 1, n - 1)),
                 selectId(records[n]), records[n])

IdsOf(records) == [i \in DOMAIN records |-> selectId(records[i])]

(* normalize that falls back to the default comparator of reSort *)
normalize_DefaultComparer(records, comparer) ==
    LET ids == IdsOf(records)
        entitiesMap == EntitiesMap(records)
    IN  EntityState(SortIds(ids, comparer, entitiesMap),
                    entitiesMap, "new", "new", "new")

(* normalize that never sorts *)
normalize_Unsorted(records, comparer) ==
    EntityState(IdsOf(records), EntitiesMap(records), "new", "new", "new")

normalize(records, comparer) ==
    LET ids == IdsOf(records)
        entitiesMap == EntitiesMap(records)
    IN  EntityState(IF comparer # "none"
                    THEN SortIds(ids, comparer, entitiesMap)
                    ELSE ids,
                    entitiesMap, "new", "new", "new")

----------------------------------------------------------------------------
(* The updaters of entity-updaters.ts.  Each takes the state as Input(s)   *)
(* and returns an EntityState whose ref is "in" exactly when the function  *)
(* returns the state object it was given.                                  *)

(* addOneUpdater that puts the new id first *)
addOneUpdater_Prepend(s, entity, comparer) ==
    LET id == selectId(entity)
    IN  IF Has(s.entities, id) THEN s
        ELSE reSort(EntityState(<<id>> \o s.ids, Put(s.entities, id, entity),
                                "new", "new", "new"), comparer)

(* addOneUpdater without the test for a present id *)
addOneUpdater_NoPresenceCheck(s, entity, comparer) ==
    LET id == selectId(entity)
    IN  reSort(EntityState(Append(s.ids, id), Put(s.entities, id, entity),
                           "new", "new", "new"), comparer)

addOneUpdater(s, entity, comparer) ==
    LET id == selectId(entity)
    IN  IF Has(s.entities, id) THEN s
        ELSE LET newIds == Append(s.ids, id)
                 newEntities == Put(s.entities, id, entity)
             IN  reSort(EntityState(newIds, newEntities, "new", "new", "new"),
                        comparer)

(* new Set(ids), spread back into an array: first occurrences, in order *)
RECURSIVE SetOrder(_)
SetOrder(ids) ==
    IF ids = <<>> THEN <<>>
    ELSE LET n == Len(ids)
             front == SetOrder(SubSeq(ids, 1, n - 1))
         IN  IF ids[n] \in Range(front) THEN front ELSE Append(front, ids[n])

(* the for-loop with the test made on the entities of the state given *)
RECURSIVE AddManyLoop_TestsState(_, _, _)
AddManyLoop_TestsState(s, entities, n) ==
    IF n = 0
    THEN [changed |-> FALSE, newEntities |-> s.entities,
          idsSet |-> SetOrder(s.ids)]
    ELSE LET acc == AddManyLoop_TestsState(s, entities, n - 1)
             e == entities[n]
             eId == selectId(e)
         IN  IF ~Has(s.entities, eId)
             THEN [changed |-> TRUE,
                   newEntities |-> Put(acc.newEntities, eId, e),
                   idsSet |-> Append(acc.idsSet, eId)]
             ELSE acc

(* the for-loop of addManyUpdater over the first n entities *)
RECURSIVE AddManyLoop(_, _, _)
AddManyLoop(s, entities, n) ==
    IF n = 0
    THEN [changed |-> FALSE, newEntities |-> s.entities,
          idsSet |-> SetOrder(s.ids)]
    ELSE LET acc == AddManyLoop(s, entities, n - 1)
             e == entities[n]
             eId == selectId(e)
         IN  IF ~Has(acc.newEntities, eId)
             THEN [changed |-> TRUE,
                   newEntities |-> Put(acc.newEntities, eId, e),
                   idsSet |-> Append(acc.idsSet, eId)]
             ELSE acc

(* addManyUpdater that overwrites the entities already present *)
addManyUpdater_Overwrite(s, entities, comparer) ==
    IF Len(entities) = 0 THEN s
    ELSE LET acc == AddManyLoop(s, entities, Len(entities))
             newEntities ==
                 [k \in DOMAIN acc.newEntities |->
                     IF k \in DOMAIN EntitiesMap(entities)
                     THEN EntitiesMap(entities)[k] ELSE acc.newEntities[k]]
         IN  reSort(EntityState(acc.idsSet, newEntities,
                                "new", "new", "new"), comparer)

addManyUpdater(s, entities, comparer) ==
    IF Len(entities) = 0 THEN s
    ELSE LET acc == AddManyLoop(s, entities, Len(entities))
         IN  IF ~acc.changed THEN s
             ELSE reSort(EntityState(acc.idsSet, acc.newEntities,
                                     "new", "new", "new"), comparer)

(* upsertOneUpdater that moves the id of a replaced entity to the end *)
upsertOneUpdater_MoveToEnd(s, entity, comparer) ==
    LET id == selectId(entity)
        keep(existingId) == existingId # id
    IN  reSort(EntityState(Append(SelectSeq(s.ids, keep), id),
                           Put(s.entities, id, entity),
                           "new", "new", "new"), comparer)

upsertOneUpdater(s, entity, comparer) ==
    LET id == selectId(entity)
        exists == Has(s.entities, id)
        newEntities == Put(s.entities, id, entity)
    IN  IF ~exists
        THEN reSort(EntityState(Append(s.ids, id), newEntities,
                                "new", "new", "new"), comparer)
        ELSE reSort(EntityState(s.ids, newEntities, "new", s.idsRef, "new"),
                    comparer)

(* setAllUpdater that keeps the entities of the state it is given *)
setAllUpdater_KeepPrior(s, entities, comparer) ==
    LET acc == AddManyLoop(s, entities, Len(entities))
    IN  reSort(EntityState(acc.idsSet, acc.newEntities, "new", "new", "new"),
               comparer)

setAllUpdater(s, entities, comparer) ==
    LET newEntities == EntitiesMap(entities)
        ids == IdsOf(entities)
    IN  reSort(EntityState(ids, newEntities, "new", "new", "new"), comparer)

(* updateOneUpdater that stores the merged entity under its own id field *)
updateOneUpdater_Rekey(s, update, comparer) ==
    IF ~Has(s.entities, update.id) THEN s
    ELSE LET newEntity == Merge(s.entities[update.id], update.changes)
         IN  reSort(EntityState(s.ids,
                                Put(s.entities, selectId(newEntity), newEntity),
                                "new", s.idsRef, "new"), comparer)

updateOneUpdater(s, update, comparer) ==
    LET id == update.id
        changes == update.changes
    IN  IF ~Has(s.entities, id) THEN s
        ELSE LET oldEntity == s.entities[id]
                 newEntity == Merge(oldEntity, changes)
                 newEntities == Put(s.entities, id, newEntity)
             IN  reSort(EntityState(s.ids, newEntities, "new", s.idsRef, "new"),
                        comparer)

(* the for-loop with every patch laid over the entity of the state given *)
RECURSIVE UpdateManyLoop_PatchesGiven(_, _, _)
UpdateManyLoop_PatchesGiven(s, updates, n) ==
    IF n = 0
    THEN [changed |-> FALSE, newEntities |-> s.entities]
    ELSE LET acc == UpdateManyLoop_PatchesGiven(s, updates, n - 1)
             id == updates[n].id
             changes == updates[n].changes
         IN  IF ~Has(acc.newEntities, id) THEN acc
             ELSE LET oldEntity == s.entities[id]
                      newEntity == Merge(oldEntity, changes)
                  IN  [changed |-> TRUE,
                       newEntities |-> Put(acc.newEntities, id, newEntity)]

(* the for-loop of updateManyUpdater over the first n updates; newEntity   *)
(* is an object built by the spread, so newEntity !== oldEntity is true.   *)
RECURSIVE UpdateManyLoop(_, _, _)
UpdateManyLoop(s, updates, n) ==
    IF n = 0
    THEN [changed |-> FALSE, newEntities |-> s.entities]
    ELSE LET acc == UpdateManyLoop(s, updates, n - 1)
             id == updates[n].id
             changes == updates[n].changes
         IN  IF ~Has(acc.newEntities, id) THEN acc
             ELSE LET oldEntity == acc.newEntities[id]
                      newEntity == Merge(oldEntity, changes)
                  IN  [changed |-> TRUE,
                       newEntities |-> Put(acc.newEntities, id, newEntity)]

(* updateManyUpdater without the early return when nothing changed *)
updateManyUpdater_NoEarlyReturn(s, updates, comparer) ==
    IF Len(updates) = 0 THEN s
    ELSE LET acc == UpdateManyLoop(s, updates, Len(updates))
         IN  reSort(EntityState(s.ids, acc.newEntities,
                                "new", s.idsRef, "new"), comparer)

(* updateManyUpdater that gives the batch up when one of its ids is absent *)
updateManyUpdater_AbandonOnMissing(s, updates, comparer) ==
    IF \E i \in DOMAIN updates : ~Has(s.entities, updates[i].id) THEN s
    ELSE LET acc == UpdateManyLoop(s, updates, Len(updates))
         IN  IF ~acc.changed THEN s
             ELSE reSort(EntityState(s.ids, acc.newEntities,
                                     "new", s.idsRef, "new"), comparer)

updateManyUpdater(s, updates, comparer) ==
    IF Len(updates) = 0 THEN s
    ELSE LET acc == UpdateManyLoop(s, updates, Len(updates))
         IN  IF ~acc.changed THEN s
             ELSE reSort(EntityState(s.ids, acc.newEntities,
                                     "new", s.idsRef, "new"), comparer)

(* removeOneUpdater that fills the place of the removed id with the last id *)
removeOneUpdater_SwapRemove(s, id) ==
    IF ~Has(s.entities, id) THEN s
    ELSE LET n == Len(s.ids)
             moved == [i \in 1..n |-> IF s.ids[i] = id THEN s.ids[n]
                                      ELSE s.ids[i]]
             keep(existingId) == existingId # id
         IN  EntityState(SelectSeq(SubSeq(moved, 1, n - 1), keep),
                         Delete(s.entities, {id}), "new", "new", "new")

removeOneUpdater(s, id) ==
    IF ~Has(s.entities, id) THEN s
    ELSE LET newEntities == Delete(s.entities, {id})
             keep(existingId) == existingId # id
             newIds == SelectSeq(s.ids, keep)
         IN  EntityState(newIds, newEntities, "new", "new", "new")

(* removeManyUpdater that drops the ids and leaves the entities map as is *)
removeManyUpdater_KeepEntities(s, ids) ==
    IF Len(ids) = 0 THEN s
    ELSE LET idsToRemove == Range(ids)
             keep(id) == id \notin idsToRemove
             newIds == SelectSeq(s.ids, keep)
         IN  IF Len(newIds) = Len(s.ids) THEN s
             ELSE EntityState(newIds, s.entities, "new", "new", "in")

removeManyUpdater(s, ids) ==
    IF Len(ids) = 0 THEN s
    ELSE LET idsToRemove == Range(ids)
             keep(id) == id \notin idsToRemove
             newIds == SelectSeq(s.ids, keep)
         IN  IF Len(newIds) = Len(s.ids) THEN s
             ELSE EntityState(newIds, Delete(s.entities, Range(ids)),
                              "new", "new", "new")

removeAllUpdater(s) ==
    IF Len(s.ids) = 0 THEN s
    ELSE EntityState(<<>>, <<>>, "new", "new", "new")

----------------------------------------------------------------------------
(* createEntityAdapter and the actions of createUseEntityActions: each     *)
(* action sets the atom to its updater applied to the atom's value.  last  *)
(* records the call of the current event; Render ends the event.           *)

NoCall == [op |-> "none"]

(* effects: [] - the atom of the adapter has no persistence effect *)
NoEffect == [attached |-> FALSE]

Called(op, arg, out) ==
    /\ last = NoCall
    /\ state' = Value(out)
    /\ last' = [op |-> op, arg |-> arg, prev |-> state, out |-> out]
    /\ UNCHANGED <<options, idb>>

Init ==
    /\ options \in Adapters
    /\ \E initialState \in EntityArrays(options.T) :
          LET out == normalize(initialState, sortComparer)
          IN  /\ state = Value(out)
              /\ last = [op |-> "normalize", arg |-> initialState,
                         prev |-> EmptyState, out |-> out]
    /\ idb = NoEffect

addOne ==
    \E entity \in Entities(options.T) :
        Called("addOne", entity,
               addOneUpdater(Input(state), entity, sortComparer))

addMany ==
    \E entities \in EntityArrays(options.T) :
        Called("addMany", entities,
               addManyUpdater(Input(state), entities, sortComparer))

upsertOne ==
    \E entity \in Entities(options.T) :
        Called("upsertOne", entity,
               upsertOneUpdater(Input(state), entity, sortComparer))

setAll ==
    \E entities \in EntityArrays(options.T) :
        Called("setAll", entities,
               setAllUpdater(Input(state), entities, sortComparer))

updateOne ==
    \E update \in EntityUpdates(options.T) :
        Called("updateOne", update,
               updateOneUpdater(Input(state), update, sortComparer))

updateMany ==
    \E updates \in BulkUpdates(options.T) :
        Called("updateMany", updates,
               updateManyUpdater(Input(state), updates, sortComparer))

removeOne ==
    \E id \in Ids :
        Called("removeOne", id, removeOneUpdater(Input(state), id))

removeMany ==
    \E ids \in IdArrays :
        Called("removeMany", ids, removeManyUpdater(Input(state), ids))

removeAll ==
    Called("removeAll", <<>>, removeAllUpdater(Input(state)))

(* The component re-renders with the atom's value; the event is over.      *)
Render ==
    /\ last # NoCall
    /\ last' = NoCall
    /\ UNCHANGED <<options, state, idb>>

Next ==
    \/ addOne
    \/ addMany
    \/ upsertOne
    \/ setAll
    \/ updateOne
    \/ updateMany
    \/ removeOne
    \/ removeMany
    \/ removeAll
    \/ Render

Spec == Init /\ [][Next]_vars

----------------------------------------------------------------------------
(* One event in which a component dispatches several actions before it is  *)
(* rendered again (the act() blocks of the tests).  Each action hands      *)
(* setEntities a function of prev; the atom calls the functions in the     *)
(* order they were handed over, each with the value the one before it      *)
(* returned.  last records the value the component was rendered with and   *)
(* the actions dispatched since.                                           *)

Short(arrays) == { a \in arrays : Len(a) <= MaxBatchLen }

(* the actions of the object useEntityActions returns, with their arguments *)
BatchCalls ==
    LET T == options.T
    IN  UNION {
          [op : {"addOne", "upsertOne"}, arg : Entities(T)],
          [op : {"addMany", "setAll"}, arg : Short(EntityArrays(T))],
          [op : {"updateOne"}, arg : EntityUpdates(T)],
          [op : {"updateMany"}, arg : Short(BulkUpdates(T))],
          [op : {"removeOne"}, arg : Ids],
          [op : {"removeMany"}, arg : Short(IdArrays)],
          [op : {"removeAll"}, arg : {<<>>}] }

(* the function of prev the action call.op hands to setEntities *)
Updater(call, prev) ==
    CASE call.op = "addOne" -> addOneUpdater(prev, call.arg, sortComparer)
      [] call.op = "addMany" -> addManyUpdater(prev, call.arg, sortComparer)
      [] call.op = "upsertOne" ->
            upsertOneUpdater(prev, call.arg, sortComparer)
      [] call.op = "setAll" -> setAllUpdater(prev, call.arg, sortComparer)
      [] call.op = "updateOne" ->
            updateOneUpdater(prev, call.arg, sortComparer)
      [] call.op = "updateMany" ->
            updateManyUpdater(prev, call.arg, sortComparer)
      [] call.op = "removeOne" -> removeOneUpdater(prev, call.arg)
      [] call.op = "removeMany" -> removeManyUpdater(prev, call.arg)
      [] call.op = "removeAll" -> removeAllUpdater(prev)

InitBatch ==
    /\ options \in Adapters
    /\ \E initialState \in Short(EntityArrays(options.T)) :
          /\ state = Value(normalize(initialState, sortComparer))
          /\ last = [op |-> "batch", rendered |-> state, calls |-> <<>>]
    /\ idb = NoEffect

(* an action that applies its updater to the value the component was       *)
(* rendered with *)
Dispatch_OnRendered ==
    /\ Len(last.calls) < MaxBatch
    /\ \E call \in BatchCalls :
          /\ state' = Value(Updater(call, Input(last.rendered)))
          /\ last' = [last EXCEPT !.calls = Append(@, call)]
    /\ UNCHANGED <<options, idb>>

(* an action is called: setEntities((prev) => updater(prev, ...)) *)
Dispatch ==
    /\ Len(last.calls) < MaxBatch
    /\ \E call \in BatchCalls :
          /\ state' = Value(Updater(call, Input(state)))
          /\ last' = [last EXCEPT !.calls = Append(@, call)]
    /\ UNCHANGED <<options, idb>>

NextBatch == Dispatch

SpecBatch == InitBatch /\ [][NextBatch]_vars

----------------------------------------------------------------------------
(* normalize and reSort called on their own, as the pure functions the     *)
(* modules export: normalize on an array of records with a comparator or   *)
(* without one, then reSort on the state normalize returned, again with a  *)
(* comparator or without one.                                              *)

InitPure ==
    /\ options \in Adapters
    /\ state = EmptyState
    /\ last = NoCall
    /\ idb = NoEffect

CallNormalize ==
    /\ last = NoCall
    /\ \E records \in RecordsOf(options.T), comparer \in ComparersOf(options.T) :
          LET out == normalize(records, comparer)
          IN  /\ state' = Value(out)
              /\ last' = [op |-> "normalize", arg |-> records,
                          comparer |-> comparer, prev |-> state, out |-> out]
    /\ UNCHANGED <<options, idb>>

CallReSort ==
    /\ last # NoCall
    /\ last.op = "normalize"
    /\ \E comparer \in ComparersOf(options.T) :
          LET out == reSort(Input(state), comparer)
          IN  /\ state' = Value(out)
              /\ last' = [op |-> "reSort", arg |-> <<>>,
                          comparer |-> comparer, prev |-> state, out |-> out]
    /\ UNCHANGED <<options, idb>>

NextPure == CallNormalize \/ CallReSort

SpecPure == InitPure /\ [][NextPure]_vars

----------------------------------------------------------------------------
(* idbEffect: the atom effect that mirrors the atom into one record of an  *)
(* IndexedDB object store.  Here state is the atom's value, options are    *)
(* the options and the trigger of the effect, and idb holds the closure of *)
(* the effect (db), the promises it waits on and the database.             *)
(*                                                                         *)
(* The database follows the IndexedDB standard: open requests on one       *)
(* database are served in the order they were made, and the transactions   *)
(* on the one object store run one after another in the order they were    *)
(* created.                                                                *)

Default == "default"
Values == {Default, "v1", "v2"}
Absent == "absent"              \* getRequest.result is undefined

key == "key"                    \* the configured key
KeyOrder == <<"a", key, "z">>   \* the keys of the store, in cursor order
Keys == Range(KeyOrder)

Stores == [Keys -> {Absent, "v1", "v2"}]

EffectOptions ==
    [trigger : {"get", "set"},
     cleanupPredicate : {"none", "isV1", "otherKey"}]

(* cleanupPredicate(value, cursor.key), for the two predicates modelled *)
cleanupPredicate(value, k) ==
    IF options.cleanupPredicate = "isV1" THEN value = "v1" ELSE k # key

InitFailed == "Failed during IDB init/cleanup/read"
WriteFailed == "Failed to write to IDB"
DeleteFailed == "Failed to delete IDB entry"

(* the closure right after let db = null, on a database holding store *)
Closure(store) ==
    [attached |-> TRUE,
     db |-> 0,                  \* 0 is null; n is the handle of the n-th open
     opens |-> 0,               \* calls of indexedDB.open
     opening |-> <<>>,          \* who awaits each pending open, oldest first
     txns |-> <<>>,             \* transactions not yet finished, oldest first
     store |-> store,
     atAttach |-> store[key],
     init |-> "none",           \* where the chain of trigger === "get" is
     gets |-> 0,                \* calls of store.get
     writes |-> <<>>,           \* one writeToDB call per change of the atom:
                                \* its value, where it is, its calls of
                                \* store.put, the handle it uses, and where
                                \* the chain of "get" was when it was made
     evaluated |-> {},          \* keys cleanupPredicate was called with
     deleted |-> {},            \* keys whose cursor.delete() succeeded
     overridden |-> FALSE,      \* setSelf was called
     observed |-> {},           \* values consumers have read from the atom
     log |-> {}]                \* console.error messages

(* openDB, called by a function that awaits it: cleanupStore, readFromDB   *)
(* or the w-th call of writeToDB *)
openDB(e, by, w) ==
    [e EXCEPT !.opens = @ + 1, !.opening = Append(@, [by |-> by, w |-> w])]

transaction(e, txn) == [e EXCEPT !.txns = Append(@, txn)]

(* readFromDB up to its first suspension *)
readFromDB(e) ==
    IF e.db = 0
    THEN openDB([e EXCEPT !.init = "opening"], "readFromDB", 0)
    ELSE transaction([e EXCEPT !.init = "reading", !.gets = @ + 1],
                     [kind |-> "read"])

(* writeToDB giving up once the initial load has failed *)
writeToDB_NotAfterFailedLoad(e, value) ==
    IF e.init = "failed"
    THEN [e EXCEPT !.writes =
             Append(@, [value |-> value, pc |-> "failed", puts |-> 0,
                        db |-> 0, at |-> e.init])]
    ELSE IF e.db = 0
    THEN openDB([e EXCEPT !.writes =
                    Append(@, [value |-> value, pc |-> "opening",
                               puts |-> 0, db |-> 0, at |-> e.init])],
                "writeToDB", Len(e.writes) + 1)
    ELSE transaction([e EXCEPT !.writes =
                         Append(@, [value |-> value, pc |-> "putting",
                                    puts |-> 1, db |-> e.db,
                                    at |-> e.init])],
                     [kind |-> "put", w |-> Len(e.writes) + 1,
                      value |-> value])

(* writeToDB up to its first suspension *)
writeToDB(e, value) ==
    LET w == Len(e.writes) + 1
    IN  IF e.db = 0
        THEN openDB([e EXCEPT !.writes =
                        Append(@, [value |-> value, pc |-> "opening",
                                   puts |-> 0, db |-> 0, at |-> e.init])],
                    "writeToDB", w)
        ELSE transaction([e EXCEPT !.writes =
                             Append(@, [value |-> value, pc |-> "putting",
                                        puts |-> 1, db |-> e.db,
                                        at |-> e.init])],
                         [kind |-> "put", w |-> w, value |-> value])

(* cleanupStore that resolves without a cleanup pass *)
cleanupOpened_SkipsPass(e) == readFromDB(e)

(* cleanupStore from the test of cleanupPredicate on, db being open *)
cleanupOpened(e) ==
    IF options.cleanupPredicate = "none"
    THEN readFromDB(e)
    ELSE transaction([e EXCEPT !.init = "cleanup"],
                     [kind |-> "cleanup", cursor |-> 1, before |-> e.store])

(* cleanupStore up to its first suspension *)
cleanupStore(e) ==
    IF e.db = 0
    THEN openDB([e EXCEPT !.init = "opening"], "cleanupStore", 0)
    ELSE cleanupOpened(e)

(* the effect without the test of trigger *)
effect_AnyTrigger(e) == cleanupStore(e)

(* the function idbEffect returns, called by the atom *)
effect(e) ==
    IF options.trigger = "get" THEN cleanupStore(e) ELSE e

InitIdb ==
    /\ options \in EffectOptions
    /\ state = Default
    /\ last = NoCall
    /\ \E store \in Stores : idb = effect(Closure(store))

(* the handle request.onsuccess resolves the oldest pending open with *)
NextHandle(e) == e.opens - Len(e.opening) + 1

(* request.onsuccess of indexedDB.open, and the continuation after await *)
OpenSucceeds ==
    /\ idb.opening # <<>>
    /\ LET who == Head(idb.opening)
           e == [idb EXCEPT !.opening = Tail(@), !.db = NextHandle(idb)]
       IN  idb' =
             IF who.by = "cleanupStore" THEN cleanupOpened(e)
             ELSE IF who.by = "readFromDB" THEN readFromDB(e)
             ELSE transaction([e EXCEPT !.writes[who.w].pc = "putting",
                                         !.writes[who.w].puts = 1,
                                         !.writes[who.w].db = e.db],
                              [kind |-> "put", w |-> who.w,
                               value |-> e.writes[who.w].value])
    /\ UNCHANGED <<options, state, last>>

(* request.onerror of indexedDB.open that keeps the result of the request *)
OpenFails_KeepsResult ==
    /\ idb.opening # <<>>
    /\ LET who == Head(idb.opening)
           e == [idb EXCEPT !.opening = Tail(@), !.db = NextHandle(idb)]
       IN  idb' =
             IF who.by \in {"cleanupStore", "readFromDB"}
             THEN [e EXCEPT !.init = "failed", !.log = @ \cup {InitFailed}]
             ELSE [e EXCEPT !.writes[who.w].pc = "failed",
                            !.log = @ \cup {WriteFailed}]
    /\ UNCHANGED <<options, state, last>>

(* request.onerror of indexedDB.open: the awaiting function rejects *)
OpenFails ==
    /\ idb.opening # <<>>
    /\ LET who == Head(idb.opening)
           e == [idb EXCEPT !.opening = Tail(@)]
       IN  idb' =
             IF who.by \in {"cleanupStore", "readFromDB"}
             THEN [e EXCEPT !.init = "failed", !.log = @ \cup {InitFailed}]
             ELSE [e EXCEPT !.writes[who.w].pc = "failed",
                            !.log = @ \cup {WriteFailed}]
    /\ UNCHANGED <<options, state, last>>

Running(kind) == idb.txns # <<>> /\ Head(idb.txns).kind = kind

(* the first key at or after the cursor that has a record *)
CursorKey ==
    LET txn == Head(idb.txns)
        here == { i \in txn.cursor..Len(KeyOrder) :
                    idb.store[KeyOrder[i]] # Absent }
    IN  IF here = {} THEN 0
        ELSE CHOOSE i \in here : \A j \in here : i <= j

Advance(e, i) == [e EXCEPT !.txns[1].cursor = i + 1]

(* request.onsuccess that deletes whatever record the cursor is on *)
CursorContinue_Deletes ==
    /\ Running("cleanup")
    /\ CursorKey # 0
    /\ LET k == KeyOrder[CursorKey]
       IN  /\ ~cleanupPredicate(idb.store[k], k)
           /\ idb' = Advance([idb EXCEPT !.evaluated = @ \cup {k},
                                         !.deleted = @ \cup {k},
                                         !.store[k] = Absent], CursorKey)
    /\ UNCHANGED <<options, state, last>>

(* request.onsuccess with a cursor whose record the predicate rejects *)
CursorContinue ==
    /\ Running("cleanup")
    /\ CursorKey # 0
    /\ LET k == KeyOrder[CursorKey]
       IN  /\ ~cleanupPredicate(idb.store[k], k)
           /\ idb' = Advance([idb EXCEPT !.evaluated = @ \cup {k}], CursorKey)
    /\ UNCHANGED <<options, state, last>>

(* request.onsuccess with a cursor whose record the predicate accepts,     *)
(* and deleteReq.onsuccess *)
DeleteSucceeds ==
    /\ Running("cleanup")
    /\ CursorKey # 0
    /\ LET k == KeyOrder[CursorKey]
       IN  /\ cleanupPredicate(idb.store[k], k)
           /\ idb' = Advance([idb EXCEPT !.evaluated = @ \cup {k},
                                         !.deleted = @ \cup {k},
                                         !.store[k] = Absent], CursorKey)
    /\ UNCHANGED <<options, state, last>>

(* an abort after which the chain still goes on to readFromDB *)
Aborted_StillReads(e) ==
    [e EXCEPT !.store = e.txns[1].before,
              !.deleted = {},
              !.txns = Append(Tail(@), [kind |-> "read"]),
              !.gets = @ + 1,
              !.init = "failed",
              !.log = @ \cup {InitFailed}]

(* the transaction is aborted: its changes are undone, the pending request *)
(* of the cursor fires request.onerror, and cleanupStore rejects *)
Aborted(e) ==
    [e EXCEPT !.store = e.txns[1].before,
              !.deleted = {},
              !.txns = Tail(@),
              !.init = "failed",
              !.log = @ \cup {InitFailed}]

(* deleteReq.onerror: the handler logs and calls cursor.continue(), but    *)
(* does not call preventDefault(), so a database that follows the standard *)
(* aborts the transaction once the handler has returned; a database that   *)
(* does not (the mocks of the tests) goes on with the cursor.              *)
DeleteFails ==
    /\ Running("cleanup")
    /\ CursorKey # 0
    /\ LET k == KeyOrder[CursorKey]
           e == [idb EXCEPT !.evaluated = @ \cup {k},
                            !.log = @ \cup {DeleteFailed}]
       IN  /\ cleanupPredicate(idb.store[k], k)
           /\ \E aborts \in BOOLEAN :
                 idb' = IF aborts THEN Aborted(e) ELSE Advance(e, CursorKey)
    /\ UNCHANGED <<options, state, last>>

(* request.onerror of the cursor: cleanupStore rejects; the handler does   *)
(* not call preventDefault(), so the transaction is aborted                *)
CursorFails ==
    /\ Running("cleanup")
    /\ idb' = Aborted(idb)
    /\ UNCHANGED <<options, state, last>>

(* request.onsuccess without a cursor: resolve(), then readFromDB *)
CursorEnd ==
    /\ Running("cleanup")
    /\ CursorKey = 0
    /\ idb' = readFromDB([idb EXCEPT !.txns = Tail(@)])
    /\ UNCHANGED <<options, state, last>>

(* a then-callback that leaves alone an atom changed since attach *)
GetSucceeds_KeepsChanged ==
    /\ Running("read")
    /\ LET storedValue == idb.store[key]
       IN  IF storedValue # Absent /\ idb.writes = <<>>
           THEN /\ state' = storedValue
                /\ idb' = [idb EXCEPT !.txns = Tail(@), !.init = "loaded",
                                      !.overridden = TRUE]
           ELSE /\ state' = state
                /\ idb' = [idb EXCEPT !.txns = Tail(@),
                                      !.init = IF storedValue # Absent
                                               THEN "loaded" ELSE "empty"]
    /\ UNCHANGED <<options, last>>

(* getRequest.onsuccess, and the then-callback that calls setSelf *)
GetSucceeds ==
    /\ Running("read")
    /\ LET storedValue == idb.store[key]
       IN  IF storedValue # Absent
           THEN /\ state' = storedValue
                /\ idb' = [idb EXCEPT !.txns = Tail(@), !.init = "loaded",
                                      !.overridden = TRUE]
           ELSE /\ state' = state
                /\ idb' = [idb EXCEPT !.txns = Tail(@), !.init = "empty"]
    /\ UNCHANGED <<options, last>>

(* getRequest.onerror, and the catch-callback *)
GetFails ==
    /\ Running("read")
    /\ idb' = [idb EXCEPT !.txns = Tail(@), !.init = "failed",
                          !.log = @ \cup {InitFailed}]
    /\ UNCHANGED <<options, state, last>>

(* putRequest.onsuccess *)
PutSucceeds ==
    /\ Running("put")
    /\ LET txn == Head(idb.txns)
       IN  idb' = [idb EXCEPT !.txns = Tail(@),
                              !.store[key] = txn.value,
                              !.writes[txn.w].pc = "done"]
    /\ UNCHANGED <<options, state, last>>

(* putRequest.onerror with a handler that puts again *)
PutFails_PutsAgain ==
    /\ Running("put")
    /\ LET txn == Head(idb.txns)
       IN  /\ idb.writes[txn.w].puts <= MaxChanges
           /\ idb' = [idb EXCEPT !.txns = Append(Tail(@), txn),
                                 !.writes[txn.w].puts = @ + 1,
                                 !.log = @ \cup {WriteFailed}]
    /\ UNCHANGED <<options, state, last>>

(* putRequest.onerror, and the catch-callback of onSet *)
PutFails ==
    /\ Running("put")
    /\ LET txn == Head(idb.txns)
       IN  idb' = [idb EXCEPT !.txns = Tail(@),
                              !.writes[txn.w].pc = "failed",
                              !.log = @ \cup {WriteFailed}]
    /\ UNCHANGED <<options, state, last>>

(* a caller sets the atom to another value; the atom calls the handler     *)
(* registered with onSet *)
SetCell ==
    /\ Len(idb.writes) < MaxChanges
    /\ \E newValue \in Values \ {state} :
          /\ state' = newValue
          /\ idb' = writeToDB(idb, newValue)
    /\ UNCHANGED <<options, last>>

(* a consumer reads the atom *)
Observe ==
    /\ state \notin idb.observed
    /\ idb' = [idb EXCEPT !.observed = @ \cup {state}]
    /\ UNCHANGED <<options, state, last>>

NextIdb ==
    \/ OpenSucceeds
    \/ OpenFails
    \/ CursorContinue
    \/ DeleteSucceeds
    \/ DeleteFails
    \/ CursorFails
    \/ CursorEnd
    \/ GetSucceeds
    \/ GetFails
    \/ PutSucceeds
    \/ PutFails
    \/ SetCell
    \/ Observe

SpecIdb == InitIdb /\ [][NextIdb]_vars

----------------------------------------------------------------------------
(* Vocabulary of the properties.                                           *)

Count(x, seq) == Cardinality({ i \in DOMAIN seq : seq[i] = x })

NoDuplicates(seq) == \A i, j \in DOMAIN seq : seq[i] = seq[j] => i = j

WellFormed(s) ==
    /\ NoDuplicates(s.ids)
    /\ DOMAIN s.entities = Range(s.ids)

HasCreatedAt(entity) == "createdAt" \in DOMAIN entity

(* the keys of the entities that carry createdAt *)
Stamped(entities) == { k \in DOMAIN entities : HasCreatedAt(entities[k]) }

SortedBy(comparer, s) ==
    \A i \in 1..(Len(s.ids) - 1) :
        Compare(comparer, s.entities[s.ids[i]], s.entities[s.ids[i + 1]]) <= 0

(* every entity of before other than the one under id is in after, as is *)
OthersUnchanged(before, after, id) ==
    \A k \in (DOMAIN before) \ {id} :
        k \in DOMAIN after /\ after[k] = before[k]

Mutations ==
    {"addOne", "addMany", "upsertOne", "setAll", "updateOne", "updateMany",
     "removeOne", "removeMany", "removeAll"}

----------------------------------------------------------------------------
(* C1: whatever the calls and their arguments, a step from a state whose   *)
(* ids are distinct and are exactly the keys of entities leads to such a   *)
(* state again.                                                            *)
C1_InvariantKept == [][WellFormed(state) => WellFormed(state')]_vars

(* The calls C2 lists: the entity, every entity, the patched id, every     *)
(* patched id, the removed id or every removed id is already present       *)
(* (absent, for updates and removals), or removeAll meets an empty state.  *)
NoOpCall ==
    \/ /\ last.op = "addOne"
       /\ Has(last.prev.entities, selectId(last.arg))
    \/ /\ last.op = "addMany"
       /\ \A i \in DOMAIN last.arg :
             Has(last.prev.entities, selectId(last.arg[i]))
    \/ /\ last.op = "updateOne"
       /\ ~Has(last.prev.entities, last.arg.id)
    \/ /\ last.op = "updateMany"
       /\ \A i \in DOMAIN last.arg : ~Has(last.prev.entities, last.arg[i].id)
    \/ /\ last.op = "removeOne"
       /\ ~Has(last.prev.entities, last.arg)
    \/ /\ last.op = "removeMany"
       /\ \A i \in DOMAIN last.arg : ~Has(last.prev.entities, last.arg[i])
    \/ /\ last.op = "removeAll"
       /\ last.prev = EmptyState

C3_SameContentSameReference ==
    (last.op \in Mutations /\ Value(last.out) = last.prev)
        => last.out.ref = "in"

(* C4: in the adapter built with a sortComparer, ids is ordered by it      *)
(* after construction and after every action.                              *)
C4_IdsSorted == sortComparer # "none" => SortedBy(sortComparer, state)

C4_Witness ==
    /\ sortComparer = "byAge"
    /\ last.op = "updateOne"
    /\ Len(state.ids) = 3
    /\ state.ids # last.prev.ids
    /\ state.entities[state.ids[1]].age < state.entities[state.ids[3]].age

(* C5: addOne of an entity whose id is absent adds that id once to ids,    *)
(* stores the entity under it and keeps every other entity; with no        *)
(* comparator and no createdAt anywhere the new id is the last of ids.     *)
C5_AddOneInserts ==
    (last.op = "addOne" /\ ~Has(last.prev.entities, selectId(last.arg))) =>
        LET id == selectId(last.arg)
        IN  /\ Len(state.ids) = Len(last.prev.ids) + 1
            /\ Count(id, state.ids) = 1
            /\ \A k \in Ids \ {id} :
                  Count(k, state.ids) = Count(k, last.prev.ids)
            /\ DOMAIN state.entities = (DOMAIN last.prev.entities) \cup {id}
            /\ state.entities[id] = last.arg
            /\ OthersUnchanged(last.prev.entities, state.entities, id)
            /\ (sortComparer = "none" /\ Stamped(state.entities) = {})
                  => state.ids[Len(state.ids)] = id

C5_Witness ==
    /\ last.op = "addOne"
    /\ ~Has(last.prev.entities, selectId(last.arg))
    /\ sortComparer = "none"
    /\ Stamped(state.entities) = {}
    /\ Len(last.prev.ids) = 2
    /\ selectId(last.arg) < last.prev.ids[1]

(* C6: addOne applied to its own result with the same entity returns that  *)
(* result, as the same object.                                             *)
C6_AddOneIdempotent ==
    last.op = "addOne" =>
        LET again == addOneUpdater(Input(state), last.arg, sortComparer)
        IN  /\ again.ref = "in"
            /\ Value(again) = state

C6_Witness ==
    /\ last.op = "addOne"
    /\ last.out.ref = "new"
    /\ Len(state.ids) = 3

(* ids of the given entities that are absent from the state, in the order  *)
(* of their first occurrence in the array *)
RECURSIVE AbsentIds(_, _)
AbsentIds(entities, given) ==
    IF given = <<>> THEN <<>>
    ELSE LET n == Len(given)
             front == AbsentIds(entities, SubSeq(given, 1, n - 1))
             id == selectId(given[n])
         IN  IF id \in DOMAIN entities \/ id \in Range(front)
             THEN front ELSE Append(front, id)

C8_UpsertOneStores ==
    last.op = "upsertOne" =>
        LET id == selectId(last.arg)
        IN  /\ state.entities[id] = last.arg
            /\ Count(id, state.ids) = 1
            /\ DOMAIN state.entities = (DOMAIN last.prev.entities) \cup {id}
            /\ OthersUnchanged(last.prev.entities, state.entities, id)

(* C9: updateOne of a present id stores under that id the old entity with  *)
(* the fields of changes laid over it, keeps every other entity, and       *)
(* leaves the ids and the keys as they were, whatever changes names.       *)
C9_UpdateOneMerges ==
    (last.op = "updateOne" /\ Has(last.prev.entities, last.arg.id)) =>
        LET id == last.arg.id
            changes == last.arg.changes
            old == last.prev.entities[id]
            new == state.entities[id]
        IN  /\ DOMAIN new = (DOMAIN old) \cup (DOMAIN changes)
            /\ \A f \in DOMAIN changes : new[f] = changes[f]
            /\ \A f \in (DOMAIN old) \ (DOMAIN changes) : new[f] = old[f]
            /\ OthersUnchanged(last.prev.entities, state.entities, id)
            /\ DOMAIN state.entities = DOMAIN last.prev.entities
            /\ Range(state.ids) = Range(last.prev.ids)
            /\ Len(state.ids) = Len(last.prev.ids)

C9_Witness ==
    /\ last.op = "updateOne"
    /\ Has(last.prev.entities, last.arg.id)
    /\ "id" \in DOMAIN last.arg.changes
    /\ last.arg.changes.id # last.arg.id
    /\ ~Has(last.prev.entities, last.arg.changes.id)
    /\ Len(state.ids) = 2

UpdatesPresent ==
    \/ last.op = "updateOne" /\ Has(last.prev.entities, last.arg.id)
    \/ last.op = "upsertOne" /\ Has(last.prev.entities, selectId(last.arg))

Naming(updates, id, f) ==
    { i \in DOMAIN updates :
        updates[i].id = id /\ f \in DOMAIN updates[i].changes }

Last(positions) == CHOOSE i \in positions : \A j \in positions : j <= i

(* C11: updateMany lays over every present entity the patches given for    *)
(* its id, later ones over earlier ones, whether or not other patches name *)
(* absent ids; it creates no key; and it returns the state object it was   *)
(* given exactly when no patch names a present id.                         *)
C11_UpdateManySkipsAbsent ==
    last.op = "updateMany" =>
        LET before == last.prev.entities
            updates == last.arg
        IN  /\ DOMAIN state.entities = DOMAIN before
            /\ \A k \in DOMAIN before :
                  LET old == before[k]
                      new == state.entities[k]
                      fields == UNION { DOMAIN updates[i].changes :
                                          i \in { j \in DOMAIN updates :
                                                    updates[j].id = k } }
                  IN  /\ DOMAIN new = (DOMAIN old) \cup fields
                      /\ \A f \in DOMAIN new :
                            new[f] = IF Naming(updates, k, f) = {} THEN old[f]
                                     ELSE updates[Last(Naming(updates, k, f))]
                                              .changes[f]
            /\ last.out.ref = "in" <=>
                  \A i \in DOMAIN updates : ~Has(before, updates[i].id)

C11_Witness ==
    /\ last.op = "updateMany"
    /\ Len(last.arg) = 2
    /\ ~Has(last.prev.entities, last.arg[1].id)
    /\ Has(last.prev.entities, last.arg[2].id)
    /\ state.entities # last.prev.entities
    /\ last.out.ref = "new"

(* seq without the members of gone, the rest in the order of seq *)
Without(seq, gone) ==
    LET stays(x) == x \notin gone IN SelectSeq(seq, stays)

(* C12: removeOne of a present id gives a state without that id in ids and *)
(* in entities, whose ids are the other ids in their former order and      *)
(* whose other entities are as before.                                     *)
C12_RemoveOneRemoves ==
    (last.op = "removeOne" /\ Has(last.prev.entities, last.arg)) =>
        LET id == last.arg
        IN  /\ id \notin Range(state.ids)
            /\ ~Has(state.entities, id)
            /\ state.ids = Without(last.prev.ids, {id})
            /\ DOMAIN state.entities = (DOMAIN last.prev.entities) \ {id}
            /\ OthersUnchanged(last.prev.entities, state.entities, id)

C12_Witness ==
    /\ last.op = "removeOne"
    /\ Len(last.prev.ids) = 3
    /\ NoDuplicates(last.prev.ids)
    /\ last.arg = last.prev.ids[1]
    /\ Len(state.ids) = 2

(* C13: removeMany gives a state whose ids are the ids that are not       *)
(* listed, in their former order, and whose entities are the entities     *)
(* under the keys that are not listed, as they were; listed ids that are   *)
(* absent change nothing.                                                  *)
C13_RemoveManyRemoves ==
    last.op = "removeMany" =>
        LET listed == Range(last.arg)
        IN  /\ state.ids = Without(last.prev.ids, listed)
            /\ DOMAIN state.entities = (DOMAIN last.prev.entities) \ listed
            /\ \A k \in DOMAIN state.entities :
                  state.entities[k] = last.prev.entities[k]

(* removing [1, 3] from ids [1, 2, 3] leaves ids [2] and the key 2 *)
C13_Witness ==
    /\ last.op = "removeMany"
    /\ last.prev.ids = <<1, 2, 3>>
    /\ last.arg = <<1, 3>>
    /\ state.ids = <<2>>
    /\ DOMAIN state.entities = {2}

Listed(s) == [i \in DOMAIN s.ids |-> s.entities[s.ids[i]]]

(* C15: normalize called without a comparator on records with distinct ids *)
(* gives ids in the order of the records, so that the entities listed by   *)
(* ids are the records given, whether or not they carry createdAt; no      *)
(* records give empty ids and empty entities.                              *)
C15_NormalizeKeepsOrder ==
    (/\ last.op = "normalize"
     /\ last.comparer = "none"
     /\ NoDuplicates(IdsOf(last.arg))) =>
        /\ state.ids = IdsOf(last.arg)
        /\ Listed(state) = last.arg
        /\ last.arg = <<>> => state = EmptyState

C15_Witness ==
    /\ last.op = "normalize"
    /\ last.comparer = "none"
    /\ Len(last.arg) = 3
    /\ NoDuplicates(IdsOf(last.arg))
    /\ \A i \in 1..3 : HasCreatedAt(last.arg[i])
    /\ last.arg[1].createdAt < last.arg[3].createdAt
    /\ Listed(state) = last.arg

(* the last of the records that has the id *)
LastWith(records, id) ==
    records[Last({ i \in DOMAIN records : selectId(records[i]) = id })]

(* after has the members of before, each as often *)
Permutation(before, after) ==
    /\ Len(after) = Len(before)
    /\ \A x \in Range(before) \cup Range(after) :
          Count(x, after) = Count(x, before)

(* any two ids whose entities compare equal follow each other in after as  *)
(* they do in before *)
Stable(comparer, before, after, entities) ==
    \A a, b \in Range(before) :
        (a # b /\ Compare(comparer, entities[a], entities[b]) = 0) =>
            Without(after, Ids \ {a, b}) = Without(before, Ids \ {a, b})

(* C16, as stated: normalize called with a comparator holds every record   *)
(* given under its id, and its ids are the ids given, ordered by the       *)
(* comparator on the entities they resolve to, equal ones in input order.  *)
C16_NormalizeSorts_Original ==
    (last.op = "normalize" /\ last.comparer # "none") =>
        /\ \A i \in DOMAIN last.arg :
              /\ Has(state.entities, selectId(last.arg[i]))
              /\ state.entities[selectId(last.arg[i])] = last.arg[i]
        /\ SortedBy(last.comparer, state)
        /\ Stable(last.comparer, IdsOf(last.arg), state.ids, state.entities)

(* C16, amended: normalize called with a comparator holds under every id   *)
(* given the last record given with that id, and nothing else; its ids are *)
(* the ids given, ordered by the comparator on the entities they resolve   *)
(* to, equal ones in input order.                                          *)
C16_NormalizeSorts ==
    (last.op = "normalize" /\ last.comparer # "none") =>
        /\ DOMAIN state.entities = Range(IdsOf(last.arg))
        /\ \A k \in DOMAIN state.entities :
              state.entities[k] = LastWith(last.arg, k)
        /\ Permutation(IdsOf(last.arg), state.ids)
        /\ SortedBy(last.comparer, state)
        /\ Stable(last.comparer, IdsOf(last.arg), state.ids, state.entities)

C16_Witness ==
    /\ last.op = "normalize"
    /\ last.comparer = "byAge"
    /\ Len(last.arg) = 3
    /\ NoDuplicates(IdsOf(last.arg))
    /\ last.arg[1].age > last.arg[2].age
    /\ last.arg[2].age = last.arg[3].age
    /\ state.ids = <<selectId(last.arg[2]), selectId(last.arg[3]),
                     selectId(last.arg[1])>>

ReSorting ==
    {"addOne", "addMany", "upsertOne", "setAll", "updateOne", "updateMany"}

AllStamped(s) == \A k \in DOMAIN s.entities : HasCreatedAt(s.entities[k])

DescendingCreatedAt(s) ==
    \A i \in 1..(Len(s.ids) - 1) :
        s.entities[s.ids[i]].createdAt >= s.entities[s.ids[i + 1]].createdAt

(* C17, as stated: without a sortComparer and with createdAt on every      *)
(* entity, ids is in descending order of createdAt after addOne, addMany,  *)
(* upsertOne, setAll, updateOne and updateMany.                            *)
C17_DefaultOrder_Original ==
    (/\ sortComparer = "none"
     /\ last.op \in ReSorting
     /\ AllStamped(state)) => DescendingCreatedAt(state)

(* C17, amended: without a sortComparer and with createdAt on every        *)
(* entity, ids is in descending order of createdAt after each of those     *)
(* calls that does not return the state it was given.                      *)
C17_DefaultOrder ==
    (/\ sortComparer = "none"
     /\ last.op \in ReSorting
     /\ last.out.ref = "new"
     /\ AllStamped(state)) => DescendingCreatedAt(state)

C17_Witness ==
    /\ sortComparer = "none"
    /\ last.op = "updateMany"
    /\ last.out.ref = "new"
    /\ AllStamped(state)
    /\ Len(state.ids) = 3
    /\ NoDuplicates(state.ids)
    /\ state.ids # last.prev.ids
    /\ state.entities[state.ids[1]].createdAt
          > state.entities[state.ids[3]].createdAt

(* C18: reSort called without a comparator on a state none of whose       *)
(* entities carries createdAt returns ids in the order they had; and       *)
(* whatever the comparator, any two ids whose entities compare equal       *)
(* follow each other after reSort as they did before.                      *)
C18_ReSortStable ==
    last.op = "reSort" =>
        /\ (last.comparer = "none" /\ Stamped(last.prev.entities) = {})
              => state.ids = last.prev.ids
        /\ Stable(last.comparer, last.prev.ids, state.ids, state.entities)

(* What the caller finds in the state object it passed, once the call has *)
(* returned out: an ids array or an entities map that out shares with the  *)
(* input holds what out holds; one that out does not share is written by   *)
(* no statement of the updaters.                                           *)
InputAfter(s, out) ==
    [ids |-> IF out.idsRef = "in" THEN out.ids ELSE s.ids,
     entities |-> IF out.entRef = "in" THEN out.entities ELSE s.entities]

C20_AddReplaces ==
    /\ (last.op = "addOne" /\ Has(last.prev.entities, selectId(last.arg)))
          => state.entities[selectId(last.arg)] = last.arg
    /\ last.op = "addMany" =>
          \A i \in DOMAIN last.arg :
              Has(last.prev.entities, selectId(last.arg[i])) =>
                  \E j \in DOMAIN last.arg :
                      /\ selectId(last.arg[j]) = selectId(last.arg[i])
                      /\ state.entities[selectId(last.arg[i])] = last.arg[j]

(* nothing is pending: no open request and no transaction *)
Quiet == idb.opening = <<>> /\ idb.txns = <<>>

(* C21: attached to a database without a record under the key, and with    *)
(* nothing failing, the effect never calls setSelf, no change of the atom  *)
(* leads to more than one put, and once nothing is pending every change    *)
(* has led to one put of its value.                                        *)
C21_EmptyStoreKeepsDefault ==
    (idb.atAttach = Absent /\ idb.log = {}) =>
        /\ ~idb.overridden
        /\ \A w \in DOMAIN idb.writes : idb.writes[w].puts <= 1
        /\ Quiet => \A w \in DOMAIN idb.writes :
                        idb.writes[w].puts = 1 /\ idb.writes[w].pc = "done"

(* C22: attached to a database that holds a value under the key, and as    *)
(* long as no caller has changed the atom and nothing has failed, no       *)
(* consumer has read the default value from the atom.                      *)
C22_NoReadOfDefault ==
    (/\ options.trigger = "get"
     /\ idb.atAttach # Absent
     /\ idb.writes = <<>>
     /\ idb.log = {}) => Default \notin idb.observed

(* the step is a change of the atom by a caller: onSet has called writeToDB *)
Changed == Len(idb'.writes) = Len(idb.writes) + 1

(* the write of the change of this step has been attempted: it waits for   *)
(* its own open request, or it has called store.put                        *)
Attempted ==
    LET write == idb'.writes[Len(idb'.writes)]
    IN  \/ /\ write.pc = "opening"
           /\ idb'.opens = idb.opens + 1
           /\ idb'.opening = Append(idb.opening,
                                    [by |-> "writeToDB",
                                     w |-> Len(idb'.writes)])
        \/ /\ write.pc = "putting"
           /\ write.puts = 1
           /\ idb'.txns = Append(idb.txns,
                                 [kind |-> "put", w |-> Len(idb'.writes),
                                  value |-> write.value])

(* C23: when the initial load fails (the open request, the cleanup pass or *)
(* the read of the key), the failing step only logs: it changes neither    *)
(* the atom nor the writes; once failed, setSelf has not been called and   *)
(* is never called, and every later change of the atom still has its write *)
(* attempted.                                                              *)
C23_FailedLoadKeepsDefault ==
    [][/\ (idb.init # "failed" /\ idb'.init = "failed") =>
            /\ state' = state
            /\ idb'.writes = idb.writes
            /\ idb'.store = IF Running("cleanup")
                            THEN Head(idb.txns).before ELSE idb.store
            /\ InitFailed \in idb'.log
            /\ ~idb'.overridden
       /\ idb.init = "failed" =>
            /\ idb'.init = "failed"
            /\ ~idb'.overridden
            /\ Changed => (Attempted /\ state' = idb'.writes[Len(idb'.writes)].value)
            /\ ~Changed => state' = state]_vars

C23_Witness ==
    /\ idb.init = "failed"
    /\ idb.atAttach # Absent
    /\ ~idb.overridden
    /\ state = "v2"
    /\ Len(idb.writes) = 2
    /\ \A w \in 1..2 : idb.writes[w].at = "failed" /\ idb.writes[w].pc = "done"
    /\ idb.store[key] = "v2"

(* the w-th write has failed: its open request or its put *)
Failed(w) == idb.writes[w].pc = "failed"

(* C24: a write calls store.put at most once, and not at all when its open *)
(* request fails; the step in which it fails logs the failure and leaves   *)
(* the atom and every other write alone; a failed write is never taken up  *)
(* again; and a change of the atom after a failed write still has its own  *)
(* write attempted.                                                        *)
C24_FailedWriteOnce ==
    [][/\ \A w \in DOMAIN idb'.writes : idb'.writes[w].puts <= 1
       /\ \A w \in DOMAIN idb.writes :
             /\ (~Failed(w) /\ idb'.writes[w].pc = "failed") =>
                    /\ state' = state
                    /\ WriteFailed \in idb'.log
                    /\ idb'.store = idb.store
                    /\ \A x \in DOMAIN idb.writes \ {w} :
                          idb'.writes[x] = idb.writes[x]
             /\ Failed(w) =>
                    /\ idb'.writes[w] = idb.writes[w]
                    /\ Changed => Attempted]_vars

C24_Witness ==
    /\ Len(idb.writes) = 2
    /\ idb.writes[1] = [value |-> "v1", pc |-> "failed", puts |-> 1,
                        db |-> 1, at |-> "empty"]
    /\ idb.writes[2].at = "empty"
    /\ idb.writes[2].pc = "done"
    /\ idb.writes[2].value = "v2"
    /\ idb.store[key] = "v2"
    /\ state = "v2"
    /\ idb.log = {WriteFailed}

(* the cleanup pass has come to the end of the store *)
PassDone == Running("cleanup") /\ CursorKey = 0

(* the keys that had a record when the cleanup pass started *)
RecordsBefore ==
    { k \in Keys : Head(idb.txns).before[k] # Absent }

(* the records the predicate is true of when the cleanup pass started *)
Matching ==
    { k \in RecordsBefore : cleanupPredicate(Head(idb.txns).before[k], k) }

(* C25: at the end of a cleanup pass in which no delete has failed, the    *)
(* predicate has been called with every record the store had, exactly the  *)
(* records it is true of have been deleted, no record left satisfies it,   *)
(* and every other record is there with the value it had.                  *)
C25_CleanupDeletesMatching ==
    (PassDone /\ DeleteFailed \notin idb.log) =>
        /\ idb.evaluated = RecordsBefore
        /\ idb.deleted = Matching
        /\ \A k \in Keys :
              /\ idb.store[k] # Absent => ~cleanupPredicate(idb.store[k], k)
              /\ idb.store[k] = IF k \in Matching THEN Absent
                                ELSE Head(idb.txns).before[k]

C25_Witness ==
    /\ PassDone
    /\ DeleteFailed \notin idb.log
    /\ options.cleanupPredicate = "isV1"
    /\ Head(idb.txns).before = [a |-> "v1", key |-> "v2", z |-> "v1"]
    /\ idb.store = [a |-> Absent, key |-> "v2", z |-> Absent]
    /\ idb.deleted = {"a", "z"}
    /\ Len(idb.txns) = 2

(* C26: once a cleanup pass in which a delete failed is over, the failure  *)
(* has been logged, every record still in the store has been evaluated,    *)
(* and the initial read of the key has been issued.                        *)
C26_FailedDeleteDoesNotAbort ==
    (DeleteFailed \in idb.log /\ ~Running("cleanup")) =>
        /\ idb.gets = 1
        /\ \A k \in Keys \ {key} :
              idb.store[k] # Absent => k \in idb.evaluated

(* C27: indexedDB.open is called at most once, and every write that has    *)
(* called store.put has done so on the handle of that one open.            *)
C27_OpenedOnce ==
    /\ idb.opens <= 1
    /\ \A w \in DOMAIN idb.writes :
          idb.writes[w].puts > 0 => idb.writes[w].db = 1

(* every change of the atom has been written without an error *)
AllWritten ==
    /\ idb.writes # <<>>
    /\ \A w \in DOMAIN idb.writes : idb.writes[w].pc = "done"

(* C28: once the atom has been changed and every write has completed       *)
(* without an error, the record under the key is the value of the last     *)
(* change, and it is the value the atom holds.                             *)
C28_StoreMirrorsCell ==
    (AllWritten /\ Quiet) =>
        /\ idb.store[key] = idb.writes[Len(idb.writes)].value
        /\ idb.store[key] = state

(* the updaters of calls applied one after another, the first one to s *)
RECURSIVE Applied(_, _)
Applied(s, calls) ==
    IF calls = <<>> THEN s
    ELSE Applied(Value(Updater(Head(calls), Input(s))), Tail(calls))

(* C29: the atom holds the value obtained from the one the component was   *)
(* rendered with by applying the updaters of the actions dispatched since, *)
(* in the order of dispatch.                                               *)
C29_ActionsApplyInOrder ==
    last.op = "batch" => state = Applied(last.rendered, last.calls)

(* two actions in one event, and the second one acted on the result of the *)
(* first, not on the value rendered                                        *)
C29_Witness ==
    /\ last.op = "batch"
    /\ Len(last.calls) = 2
    /\ last.calls[1].op = "addOne"
    /\ last.calls[2].op = "addOne"
    /\ last.rendered = EmptyState
    /\ Len(state.ids) = 2
    /\ state # Value(Updater(last.calls[2], Input(last.rendered)))

(* C30: an updateOne, updateMany or upsertOne that returns a new state     *)
(* with the ids in the order they had returns the ids array of its input.  *)
(* (No action changes ids alone: every action that changes the ids also    *)
(* changes the entities, so the other half of the reuse has no case here.) *)
C30_UnaffectedPartReused ==
    (/\ last.op \in {"updateOne", "updateMany", "upsertOne"}
     /\ last.out.ref = "new"
     /\ last.out.ids = last.prev.ids) => last.out.idsRef = "in"

(* C31: normalize holds under every id given the last record given with    *)
(* that id, and its ids name every id as often as the records do.          *)
C31_NormalizeDuplicates ==
    last.op = "normalize" =>
        \A id \in Range(IdsOf(last.arg)) :
            /\ Has(state.entities, id)
            /\ state.entities[id] = LastWith(last.arg, id)
            /\ Count(id, state.ids) = Count(id, IdsOf(last.arg))

C31_Witness ==
    /\ last.op = "normalize"
    /\ Len(last.arg) = 3
    /\ selectId(last.arg[1]) = selectId(last.arg[3])
    /\ selectId(last.arg[1]) # selectId(last.arg[2])
    /\ last.arg[1] # last.arg[3]
    /\ state.entities[selectId(last.arg[1])] = last.arg[3]
    /\ Count(selectId(last.arg[1]), state.ids) = 2
    /\ Len(state.ids) = 3

(* C32: without a sortComparer, after an addOne, addMany, upsertOne,       *)
(* setAll, updateOne or updateMany that has sorted (it returns a new       *)
(* state), any two ids whose entities both have createdAt stand in         *)
(* descending order of createdAt, whatever the other entities have.        *)
C32_StampedPairsDescending ==
    (/\ sortComparer = "none"
     /\ last.op \in ReSorting
     /\ last.out.ref = "new") =>
        \A i, j \in DOMAIN state.ids :
            (/\ i < j
             /\ HasCreatedAt(state.entities[state.ids[i]])
             /\ HasCreatedAt(state.entities[state.ids[j]])) =>
                state.entities[state.ids[i]].createdAt >=
                    state.entities[state.ids[j]].createdAt

(* the record the store held under the key at attach matches the predicate *)
KeyMatches ==
    idb.atAttach # Absent /\ cleanupPredicate(idb.atAttach, key)

(* every record the store had at attach has been passed to the predicate:  *)
(* the one under the key, those deleted and those still there              *)
AllEvaluated ==
    /\ idb.atAttach # Absent => key \in idb.evaluated
    /\ idb.deleted \subseteq idb.evaluated
    /\ \A k \in Keys \ {key} : idb.store[k] # Absent => k \in idb.evaluated

(* whatever setSelf was called with had been written by a change of the    *)
(* atom: it is not the record of the attach                                *)
OnlyWrittenLoaded ==
    idb.overridden =>
        \E w \in DOMAIN idb.writes : idb.writes[w].pc = "done"

LoadStarted == idb.init # "none"

(* C34: the chain of cleanup and read is started only with trigger "get",  *)
(* and then at attach; with another trigger the effect opens nothing,      *)
(* evaluates, deletes and reads nothing and never calls setSelf, indexedDB *)
(* is opened by writes only, and every change of the atom has its write    *)
(* attempted.                                                              *)
C34_LoadOnlyOnGet ==
    [][/\ LoadStarted <=> options.trigger = "get"
       /\ options.trigger # "get" =>
            /\ idb.gets = 0 /\ idb'.gets = 0
            /\ idb'.evaluated = {} /\ idb'.deleted = {}
            /\ ~idb'.overridden
            /\ idb.opens <= Len(idb.writes)
            /\ idb.writes = <<>> => (idb.opening = <<>> /\ idb.txns = <<>>)
            /\ \A k \in Keys \ {key} : idb'.store[k] = idb.store[k]
            /\ Changed => Attempted
            /\ ~Changed => state' = state]_vars

C34_Witness ==
    /\ options.trigger = "set"
    /\ options.cleanupPredicate = "isV1"
    /\ idb.atAttach = "v1"
    /\ idb.store = [a |-> "v1", key |-> "v2", z |-> "v1"]
    /\ state = "v2"
    /\ Len(idb.writes) = 1
    /\ idb.writes[1].pc = "done"
    /\ idb.opens = 1
    /\ ~LoadStarted
    /\ Default \in idb.observed

(* the atom was changed once, while the initial load was in flight; the    *)
(* read has returned a value, the write is done and nothing is pending     *)
ChangedDuringLoad ==
    /\ idb.init = "loaded"
    /\ Len(idb.writes) = 1
    /\ idb.writes[1].at \in {"opening", "cleanup", "reading"}
    /\ idb.writes[1].pc = "done"
    /\ Quiet

(* C35: after a change to v made during the initial load, the store holds  *)
(* v and the atom holds what the read returned: v itself when the put ran  *)
(* before the read, the value stored at attach otherwise - always so when  *)
(* the change came after store.get was called or no cleanup is configured. *)
C35_LateOverride ==
    ChangedDuringLoad =>
        /\ idb.overridden
        /\ idb.store[key] = idb.writes[1].value
        /\ state \in {idb.atAttach, idb.writes[1].value}
        /\ (idb.writes[1].at = "reading" \/ options.cleanupPredicate = "none")
              => state = idb.atAttach

C35_Witness ==
    /\ ChangedDuringLoad
    /\ idb.writes[1].at = "reading"
    /\ idb.atAttach = "v1"
    /\ state = "v1"
    /\ idb.store[key] = "v2"

(* the step is the failure of the oldest open request: whoever awaited it  *)
(* has failed                                                              *)
OpenFailed ==
    /\ idb.opening # <<>>
    /\ idb'.opening = Tail(idb.opening)
    /\ \/ idb.init = "opening" /\ idb'.init = "failed"
       \/ \E w \in DOMAIN idb.writes :
             idb.writes[w].pc = "opening" /\ idb'.writes[w].pc = "failed"

(* the step is the success of the open request the w-th write awaited *)
OpenedFor(w) ==
    idb.writes[w].pc = "opening" /\ idb'.writes[w].pc = "putting"

(* C36: a failed open leaves db as it was; a change of the atom made while *)
(* db is unset calls indexedDB.open again; when the open a write awaits    *)
(* succeeds, db is set and the write calls store.put on it; and once db is *)
(* set it stays set, and a change of the atom puts on it without opening.  *)
C36_FailedOpenNotCached ==
    [][/\ OpenFailed => idb'.db = idb.db
       /\ (idb.db = 0 /\ Changed) =>
            /\ idb'.opens = idb.opens + 1
            /\ idb'.writes[Len(idb'.writes)].pc = "opening"
       /\ \A w \in DOMAIN idb.writes :
             OpenedFor(w) =>
                /\ idb'.db # 0
                /\ idb'.writes[w].db = idb'.db
                /\ idb'.writes[w].puts = 1
       /\ idb.db # 0 =>
            /\ idb'.db # 0
            /\ Changed =>
                  /\ idb'.opens = idb.opens
                  /\ idb'.writes[Len(idb'.writes)].db = idb.db
                  /\ idb'.writes[Len(idb'.writes)].puts = 1]_vars

C36_Witness ==
    /\ idb.init = "failed"
    /\ idb.gets = 0
    /\ idb.opens = 2
    /\ idb.db = 2
    /\ Len(idb.writes) = 2
    /\ idb.writes[1] = [value |-> "v1", pc |-> "done", puts |-> 1,
                        db |-> 2, at |-> "failed"]
    /\ idb.writes[2] = [value |-> "v2", pc |-> "done", puts |-> 1,
                        db |-> 2, at |-> "failed"]
    /\ idb.store[key] = "v2"

(* the initial load has failed before store.get was called: the open       *)
(* request or the cleanup pass                                             *)
FailedBeforeRead == idb.init = "failed" /\ idb.gets = 0

(* C37: when the open request or the cursor of the cleanup pass fails, the *)
(* failing step logs and leaves the atom and the writes alone; store.get   *)
(* is not called then or later, setSelf is never called, and every later   *)
(* change of the atom has its write attempted.                             *)
C37_NoReadAfterFailedCleanup ==
    [][/\ (idb.init \in {"opening", "cleanup"} /\ idb'.init = "failed") =>
            /\ state' = state
            /\ idb'.writes = idb.writes
            /\ idb'.gets = 0
            /\ InitFailed \in idb'.log
            /\ idb'.txns = IF idb.init = "cleanup"
                           THEN Tail(idb.txns) ELSE idb.txns
       /\ FailedBeforeRead =>
            /\ ~idb.overridden /\ ~idb'.overridden
            /\ idb'.gets = 0
            /\ \A i \in DOMAIN idb'.txns : idb'.txns[i].kind = "put"
            /\ Changed => (Attempted /\
                           state' = idb'.writes[Len(idb'.writes)].value)
            /\ ~Changed => state' = state]_vars

C37_Witness ==
    /\ FailedBeforeRead
    /\ options.cleanupPredicate = "isV1"
    /\ idb.atAttach = "v2"
    /\ idb.evaluated = {"a"}
    /\ idb.log = {InitFailed}
    /\ state = "v1"
    /\ Len(idb.writes) = 1
    /\ idb.writes[1].at = "failed"
    /\ idb.writes[1].pc = "done"
    /\ idb.store[key] = "v1"

(* the first of the entities that has the id *)
FirstWith(entities, id) ==
    entities[CHOOSE i \in DOMAIN entities :
                /\ selectId(entities[i]) = id
                /\ \A j \in 1..(i - 1) : selectId(entities[j]) # id]

(* C38: after addMany, under every given id that was absent the state      *)
(* holds the first entity given with that id, and ids names it once.       *)
C38_AddManyFirstWins ==
    last.op = "addMany" =>
        \A id \in Range(IdsOf(last.arg)) \ DOMAIN last.prev.entities :
            /\ Has(state.entities, id)
            /\ state.entities[id] = FirstWith(last.arg, id)
            /\ Count(id, state.ids) = 1

C38_Witness ==
    /\ last.op = "addMany"
    /\ Len(last.arg) = 2
    /\ selectId(last.arg[1]) = selectId(last.arg[2])
    /\ last.arg[1] # last.arg[2]
    /\ ~Has(last.prev.entities, selectId(last.arg[1]))
    /\ Len(last.prev.ids) = 1
    /\ state.entities[selectId(last.arg[1])] = last.arg[1]
    /\ Len(state.ids) = 2

(* updateOneUpdater called with each of the updates in turn, the first     *)
(* time on s and then on what the call before returned                     *)
RECURSIVE UpdatedOneByOne(_, _)
UpdatedOneByOne(s, updates) ==
    IF updates = <<>> THEN s
    ELSE UpdatedOneByOne(updateOneUpdater(s, Head(updates), sortComparer),
                         Tail(updates))

(* C39: updateMany leaves the entities that updateOne leaves when it is    *)
(* called with the same patches one after another, in list order.          *)
C39_UpdateManyIsFold ==
    last.op = "updateMany" =>
        state.entities = UpdatedOneByOne(Input(last.prev), last.arg).entities

C39_Witness ==
    /\ last.op = "updateMany"
    /\ Len(last.arg) = 2
    /\ last.arg[1].id = last.arg[2].id
    /\ Has(last.prev.entities, last.arg[1].id)
    /\ DOMAIN last.arg[1].changes = {"age"}
    /\ last.arg[2].changes = <<>>
    /\ last.prev.entities[last.arg[1].id].age # last.arg[1].changes.age
    /\ state.entities[last.arg[1].id].age = last.arg[1].changes.age
    /\ Len(state.ids) = 2

====
